---- MODULE Spec2Model ----
(***************************************************************************)
(* Model of src/tool.py: the Open WebUI currency conversion tool.          *)
(*                                                                         *)
(* The program state is the Tools object, whose only field is              *)
(* valves.default_currency.  Tools.convert is one synchronous call; the    *)
(* Rate Provider (currency_converter.CurrencyConverter) is an external     *)
(* collaborator, modelled as a recording stub: every construction and      *)
(* every conversion request of a call is appended to `events`, and its     *)
(* outcome (success, or an exception with a message) is an input of the    *)
(* call.  Python values keep their type: a returned value is tagged "str"  *)
(* or "float" (or "raise" for an exception leaving the call).  Amounts are *)
(* exact rationals <<numerator, denominator>>.                             *)
(***************************************************************************)
EXTENDS Integers, Sequences, FiniteSets, TLC

VARIABLES default_currency, call, ret, events, lastOp

vars == <<default_currency, call, ret, events, lastOp>>

(***************************************************************************)
(* Bounds of the model                                                     *)
(***************************************************************************)
MaxAmount == 0
NumDates == 1

(***************************************************************************)
(* Python values                                                           *)
(***************************************************************************)
None == "None"

A_TO_B == "A_TO_B"
B_TO_A == "B_TO_A"
Direction == {A_TO_B, B_TO_A}

SINGLE_DAY_ECB_URL == "https://www.ecb.europa.eu/stats/eurofxref/eurofxref.zip"
ECB_URL == "https://www.ecb.europa.eu/stats/eurofxref/eurofxref-hist.zip"

PyStr(s) == [type |-> "str", val |-> s]
PyFloat(q) == [type |-> "float", val |-> q]

StartsWith(s, p) == Len(s) >= Len(p) /\ SubSeq(s, 1, Len(p)) = p
Contains(s, p) == \E i \in 1..(Len(s) - Len(p) + 1) : SubSeq(s, i, i + Len(p) - 1) = p

(***************************************************************************)
(* Exact rational arithmetic for amounts and rates                         *)
(***************************************************************************)
Abs(n) == IF n < 0 THEN -n ELSE n

RECURSIVE Gcd(_, _)
Gcd(m, n) == IF n = 0 THEN m ELSE Gcd(n, m % n)

Norm(q) ==
    LET g == Gcd(Abs(q[1]), Abs(q[2]))
        s == IF q[2] < 0 THEN -1 ELSE 1
    IN <<(s * q[1]) \div g, (s * q[2]) \div g>>

QMul(p, q) == Norm(<<p[1] * q[1], p[2] * q[2]>>)
QDiv(p, q) == Norm(<<p[1] * q[2], p[2] * q[1]>>)

(***************************************************************************)
(* Inputs of a call                                                        *)
(***************************************************************************)
Amounts == {<<n, 1>> : n \in (-1)..MaxAmount} \cup {<<100, 1>>}

DateList == <<"2014-03-28", "2020-01-02", "2021-06-15", "2022-11-30">>
Dates == {DateList[i] : i \in 1..NumDates}

Supported == {"EUR", "USD", "JPY"}
ACodes == {"EUR", "JPY", "XXX"}
BCodes == {"USD", "JPY"}
DefaultCurrencies == {"", "USD"}

\* What constructing the provider can do: succeed, or raise with a message
\* (an unreachable feed for a URL; a non-string argument fails the real
\* library's load_file, while a stub may accept it).
InitOutcomes(feed) ==
    {"ok", IF feed \in {SINGLE_DAY_ECB_URL, ECB_URL}
           THEN "HTTP Error 404: Not Found"
           ELSE "'datetime.date' object has no attribute 'startswith'"}
ConvOutcomes == {"ok", "rate not available"}

(***************************************************************************)
(* The Rate Provider stub: reference rates against EUR, exact and          *)
(* invertible; one table for the latest day, one for historical dates.     *)
(***************************************************************************)
Rate(code, date) ==
    CASE code = "EUR" -> <<1, 1>>
      [] code = "USD" -> IF date = None THEN <<27, 25>> ELSE <<5, 4>>
      [] code = "JPY" -> IF date = None THEN <<160, 1>> ELSE <<130, 1>>

KwDate(kwargs) == IF kwargs = {} THEN None ELSE (CHOOSE kv \in kwargs : kv[1] = "date")[2]

\* CurrencyConverter.convert(amount, currency, new_currency, date=None):
\* amount / r0 * r1, or an exception carrying a message.
ProviderConvert(args, kwargs, outcome) ==
    IF outcome # "ok" THEN [ok |-> FALSE, cause |-> outcome]
    ELSE IF args[2] \notin Supported
         THEN [ok |-> FALSE, cause |-> args[2] \o " is not a supported currency"]
    ELSE IF args[3] \notin Supported
         THEN [ok |-> FALSE, cause |-> args[3] \o " is not a supported currency"]
    ELSE [ok |-> TRUE,
          value |-> QMul(QDiv(args[1], Rate(args[2], KwDate(kwargs))),
                         Rate(args[3], KwDate(kwargs)))]

(***************************************************************************)
(* Tools.Valves and Tools.__init__                                         *)
(***************************************************************************)
\* Mutant: the default the docstrings announce ('USD') instead of Field("").
Valves_default_currency_USD == "USD"

Valves_default_currency == ""

(***************************************************************************)
(* Tools.convert, step by step                                             *)
(***************************************************************************)
NoDefaultMsg ==
    "Error: No default currency set. Either set a default currency or specify two currency codes."

\* Mutant: the test for an empty default is missing.
ResolveB_NoEmptyCheck(b_currency_code, dc) ==
    IF b_currency_code = None
    THEN [returned |-> FALSE, b |-> dc]
    ELSE [returned |-> FALSE, b |-> b_currency_code]

\* lines 88-91: the fallback of b_currency_code to the default currency
ResolveB(b_currency_code, dc) ==
    IF b_currency_code = None
    THEN IF dc = ""
         THEN [returned |-> TRUE, value |-> PyStr(NoDefaultMsg)]
         ELSE [returned |-> FALSE, b |-> dc]
    ELSE [returned |-> FALSE, b |-> b_currency_code]

\* lines 94-97: the argument handed to the CurrencyConverter constructor
Feed(date) == IF date = None THEN SINGLE_DAY_ECB_URL ELSE date

\* lines 98-102
InitError(cause) ==
    PyStr("Error: Problem initializing conversion utility.\n===============================================\n"
          \o cause)

\* Mutant: a failed construction is tried once more.
Construct_Retry(date, outcome) ==
    IF outcome = "ok"
    THEN [ok |-> TRUE, c |-> [currency_file |-> Feed(date)],
          log |-> <<[op |-> "CurrencyConverter", arg |-> Feed(date), outcome |-> "ok"]>>]
    ELSE [ok |-> FALSE, value |-> InitError(outcome),
          log |-> <<[op |-> "CurrencyConverter", arg |-> Feed(date), outcome |-> outcome],
                    [op |-> "CurrencyConverter", arg |-> Feed(date), outcome |-> outcome]>>]

\* lines 92-102: c = None; try: c = CurrencyConverter(...) except Exception
Construct(date, outcome) ==
    IF outcome = "ok"
    THEN [ok |-> TRUE, c |-> [currency_file |-> Feed(date)],
          log |-> <<[op |-> "CurrencyConverter", arg |-> Feed(date), outcome |-> "ok"]>>]
    ELSE [ok |-> FALSE, value |-> InitError(outcome),
          log |-> <<[op |-> "CurrencyConverter", arg |-> Feed(date), outcome |-> outcome]>>]

\* Mutant: the two branches are exchanged.
ResolveCodes_Swapped(direction, a_currency_code, b_currency_code) ==
    IF direction = A_TO_B
    THEN [source_code |-> b_currency_code, target_code |-> a_currency_code]
    ELSE [source_code |-> a_currency_code, target_code |-> b_currency_code]

\* Mutant: direction is ignored, Currency A is always the source.
ResolveCodes_IgnoreDirection(direction, a_currency_code, b_currency_code) ==
    [source_code |-> a_currency_code, target_code |-> b_currency_code]

\* lines 103-110
ResolveCodes(direction, a_currency_code, b_currency_code) ==
    IF direction = A_TO_B
    THEN [source_code |-> a_currency_code, target_code |-> b_currency_code]
    ELSE [source_code |-> b_currency_code, target_code |-> a_currency_code]

\* lines 112-115: the keyword arguments of c.convert
ConvertKwargs(date) == IF date = None THEN {} ELSE {<<"date", date>>}

\* Mutant: the amount is rounded to two decimal places before it is returned.
ConvertOk_Rounded(value) ==
    PyFloat(Norm(<<(200 * value[1] + value[2]) \div (2 * value[2]), 100>>))

\* lines 113, 115: return c.convert(...)
ConvertOk(value) == PyFloat(value)

\* Mutant: the message leaves out str(e).
ConvertError_NoCause(cause) ==
    PyStr("Error: Problem converting currency.\n===================================\n")

\* lines 116-120
ConvertError(cause) ==
    PyStr("Error: Problem converting currency.\n===================================\n"
          \o cause)

\* lines 111-120: try: return c.convert(...) except Exception
Invoke(c, source_amount, codes, date, outcome) ==
    LET args == <<source_amount, codes.source_code, codes.target_code>>
        kwargs == ConvertKwargs(date)
        r == ProviderConvert(args, kwargs, outcome)
        ev == [op |-> "convert", on |-> c, args |-> args, kwargs |-> kwargs,
               outcome |-> IF r.ok THEN "ok" ELSE r.cause]
    IN [value |-> IF r.ok THEN ConvertOk(r.value) ELSE ConvertError(r.cause),
        log |-> <<ev>>]

\* lines 63-120: the whole call; initOutcome and convOutcome are what the
\* external provider does when constructed and when asked to convert.
convert(dc, direction, source_amount, a_currency_code, b_currency_code, date, initOutcome, convOutcome) ==
    LET rb == ResolveB(b_currency_code, dc) IN
    IF rb.returned THEN [value |-> rb.value, log |-> <<>>]
    ELSE
      LET k == Construct(date, initOutcome) IN
      IF ~k.ok THEN [value |-> k.value, log |-> k.log]
      ELSE
        LET codes == ResolveCodes(direction, a_currency_code, rb.b)
            v == Invoke(k.c, source_amount, codes, date, convOutcome)
        IN [value |-> v.value, log |-> k.log \o v.log]

(***************************************************************************)
(* State machine                                                           *)
(***************************************************************************)
NoCall == [direction |-> None, source_amount |-> <<0, 1>>, a_currency_code |-> None,
           b_currency_code |-> None, date |-> None, dc |-> None]

Init ==
    /\ default_currency = Valves_default_currency
    /\ call = NoCall
    /\ ret = PyStr("")
    /\ events = <<>>
    /\ lastOp = "init"

\* A call of Tools.convert by the host.
Convert ==
    \E direction \in Direction, source_amount \in Amounts, a \in ACodes,
       b \in BCodes \cup {None}, date \in Dates \cup {None},
       convOutcome \in ConvOutcomes :
      \E initOutcome \in InitOutcomes(Feed(date)) :
        LET r == convert(default_currency, direction, source_amount, a, b, date,
                         initOutcome, convOutcome)
        IN /\ call' = [direction |-> direction, source_amount |-> source_amount,
                       a_currency_code |-> a, b_currency_code |-> b, date |-> date,
                       dc |-> default_currency]
           /\ ret' = r.value
           /\ events' = r.log
           /\ lastOp' = "convert"
           /\ UNCHANGED default_currency

\* The operator assigns valves.default_currency through the host's settings.
SetDefaultCurrency ==
    \E v \in DefaultCurrencies :
        /\ default_currency' = v
        /\ lastOp' = "set"
        /\ UNCHANGED <<call, ret, events>>

Next == Convert \/ SetDefaultCurrency

Spec == Init /\ [][Next]_vars

(***************************************************************************)
(* Observations of the last call                                           *)
(***************************************************************************)
Called == call.direction # None

\* b_currency_code after the fallback of lines 88-91
ResolvedB == IF call.b_currency_code = None THEN call.dc ELSE call.b_currency_code

IsConstruct(e) == e.op = "CurrencyConverter"
IsConvert(e) == e.op = "convert"
Constructs == {i \in 1..Len(events) : IsConstruct(events[i])}
Converts == {i \in 1..Len(events) : IsConvert(events[i])}

\* construction and conversion both succeeded
Succeeded ==
    /\ Called
    /\ Len(events) = 2
    /\ IsConstruct(events[1]) /\ events[1].outcome = "ok"
    /\ IsConvert(events[2]) /\ events[2].outcome = "ok"

Flip(direction) == IF direction = A_TO_B THEN B_TO_A ELSE A_TO_B

(***************************************************************************)
(* C1: a call with b_currency_code absent and default_currency empty       *)
(* returns exactly the "no default currency" error string, and the         *)
(* provider is neither constructed nor asked to convert.                   *)
(***************************************************************************)
C1_NoDefaultError ==
    (Called /\ call.b_currency_code = None /\ call.dc = "") =>
        /\ ret.type = "str"
        /\ ret.val = "Error: No default currency set. Either set a default currency or specify two currency codes."
        /\ events = <<>>

C1_Witness ==
    /\ Called /\ call.b_currency_code = None /\ call.dc = ""
    /\ call.date # None /\ call.direction = B_TO_A /\ ret.type = "str"

(***************************************************************************)
(* C2: on every path the value returned by convert is a string, an error   *)
(* description beginning with "Error:" or the rendered amount; a           *)
(* successful conversion never returns the raw number.                     *)
(***************************************************************************)
C2_AlwaysString ==
    Called =>
        /\ ret.type = "str"
        /\ (~Succeeded => StartsWith(ret.val, "Error:"))

(***************************************************************************)
(* C3: every conversion request carries the codes chosen by direction:     *)
(* A_TO_B sends (a, resolved b), B_TO_A sends (resolved b, a).             *)
(***************************************************************************)
C3_DirectionResolution ==
    \A i \in Converts :
        /\ call.direction = A_TO_B =>
              /\ events[i].args[2] = call.a_currency_code
              /\ events[i].args[3] = ResolvedB
        /\ call.direction = B_TO_A =>
              /\ events[i].args[2] = ResolvedB
              /\ events[i].args[3] = call.a_currency_code

C3_Witness ==
    /\ Converts # {} /\ call.direction = B_TO_A
    /\ call.a_currency_code # ResolvedB

(***************************************************************************)
(* C4: with a date supplied the provider is constructed on the full        *)
(* historical feed, never on the single-day feed, and the same date is     *)
(* forwarded as the date argument of the conversion request.               *)
(***************************************************************************)
C4_HistoricalMode ==
    (Called /\ call.date # None) =>
        /\ \A i \in Constructs : events[i].arg = ECB_URL
        /\ \A i \in Converts : events[i].kwargs = {<<"date", call.date>>}

(***************************************************************************)
(* C5: a failed construction and a failed conversion each make the call    *)
(* return a string that starts with "Error:" and contains the cause's      *)
(* text; no exception leaves the call.                                     *)
(***************************************************************************)
C5_FailuresBecomeStrings ==
    /\ ret.type # "raise"
    /\ \A i \in 1..Len(events) :
          events[i].outcome # "ok" =>
              /\ ret.type = "str"
              /\ StartsWith(ret.val, "Error:")
              /\ Contains(ret.val, events[i].outcome)

C5_Witness ==
    \E i \in Converts : events[i].outcome = "XXX is not a supported currency"

(***************************************************************************)
(* C6: with b_currency_code absent and a non-empty default_currency the    *)
(* provider receives default_currency in the B position, and the example   *)
(* call (default USD, A_TO_B, 100.0, EUR, no b, no date; the provider      *)
(* answers 108.0) returns the string "108.0".                              *)
(***************************************************************************)
C6_DefaultFallback ==
    (Called /\ call.b_currency_code = None /\ call.dc # "") =>
        /\ \A i \in Converts :
              IF call.direction = A_TO_B
              THEN events[i].args[3] = call.dc
              ELSE events[i].args[2] = call.dc
        /\ ( /\ Succeeded
             /\ call.dc = "USD" /\ call.direction = A_TO_B
             /\ call.source_amount = <<100, 1>> /\ call.a_currency_code = "EUR"
             /\ call.date = None )
           => (ret.type = "str" /\ ret.val = "108.0")

(***************************************************************************)
(* C7: a successful call without a date constructs the provider on the     *)
(* single-day feed, asks for exactly (source_amount, source_code,          *)
(* target_code) with no date, and returns the provider's result unchanged. *)
(***************************************************************************)
C7_LatestRateSuccess ==
    (Succeeded /\ call.date = None) =>
        /\ events[1].arg = SINGLE_DAY_ECB_URL
        /\ events[2].args =
              IF call.direction = A_TO_B
              THEN <<call.source_amount, call.a_currency_code, ResolvedB>>
              ELSE <<call.source_amount, ResolvedB, call.a_currency_code>>
        /\ events[2].kwargs = {}
        /\ ret.val = ProviderConvert(events[2].args, events[2].kwargs, "ok").value

C7_Witness ==
    /\ Succeeded /\ call.date = None
    /\ call.a_currency_code = "JPY" /\ ret.val = <<27, 40>>

(***************************************************************************)
(* C8: round trip with the exact stub: after a successful conversion of X  *)
(* from M to N, converting the result back from N to M with the same date  *)
(* yields X, both with the codes swapped and with the direction flipped.   *)
(***************************************************************************)
C8_Swapped ==
    convert(call.dc, call.direction, ret.val,
            IF call.direction = A_TO_B THEN events[2].args[3] ELSE events[2].args[2],
            IF call.direction = A_TO_B THEN events[2].args[2] ELSE events[2].args[3],
            call.date, "ok", "ok").value

C8_Flipped ==
    convert(call.dc, Flip(call.direction), ret.val,
            call.a_currency_code, call.b_currency_code, call.date, "ok", "ok").value

C8_RoundTrip ==
    Succeeded =>
        /\ C8_Swapped.type = ret.type /\ C8_Swapped.val = call.source_amount
        /\ C8_Flipped.type = ret.type /\ C8_Flipped.val = call.source_amount

C8_Witness ==
    /\ Succeeded /\ call.date # None
    /\ call.a_currency_code = "JPY" /\ ResolvedB = "USD"
    /\ ret.val # call.source_amount

(***************************************************************************)
(* C9: a call is one linear sequence: at most one construction, at most    *)
(* one conversion request, the request only after a successful             *)
(* construction in the same call and on the provider that construction     *)
(* made, and nothing after a failure.                                      *)
(***************************************************************************)
C9_LinearNoRetry ==
    /\ Cardinality(Constructs) <= 1
    /\ Cardinality(Converts) <= 1
    /\ \A i \in Converts :
          /\ i > 1
          /\ IsConstruct(events[i - 1]) /\ events[i - 1].outcome = "ok"
          /\ events[i].on = [currency_file |-> events[i - 1].arg]
    /\ \A i \in 1..Len(events) : events[i].outcome # "ok" => i = Len(events)

C9_Witness ==
    /\ Called /\ Len(events) = 1 /\ events[1].outcome # "ok"

====
